---- MODULE Spec2Model ----
\* Credit-gated image enhancement gateway (src/App.py): the Airtable record
\* store client, the credit check, the credit increment, the usage logger and
\* enhance_image, run by concurrent Streamlit sessions against one store.
EXTENDS Integers, Sequences, FiniteSets, TLC

\* ------------------------------------------------------------------ bounds
MaxCalls == 2          \* enhance_image invocations started in one behaviour
MaxCredits == 1        \* largest credit value provisioned in the accounts table
MaxCheckCredits == 5   \* largest credit value in the Check-only specification

\* ------------------------------------------------------------ input domains
Callers == {"c1", "c2"}             \* concurrent sessions (script runs)
Keys == {"K1", "K2"}                \* API keys a caller may enter
DefaultScale == 4                   \* enhance_image(..., scale=4, ...)
\* enhance_image is called with its default scale and format.
Requests == {[scale |-> DefaultScale, format |-> "JPEG"]}

\* Python's None / an optional value: the empty set, or a singleton.
None == {}
Some(x) == {x}
TheVal(o) == CHOOSE x \in o : TRUE

\* dict.get(name, default)
DictGet(d, name, default) == IF name \in DOMAIN d THEN d[name] ELSE default

\* ------------------------------------------------------------------ base64
\* A base64 text is a sequence over 0..63 (alphabet positions) and Pad ('=').
Pad == 64

RECURSIVE b64encode(_)
b64encode(bytes) ==
  IF Len(bytes) = 0 THEN <<>>
  ELSE IF Len(bytes) = 1 THEN
    << bytes[1] \div 4, (bytes[1] % 4) * 16, Pad, Pad >>
  ELSE IF Len(bytes) = 2 THEN
    << bytes[1] \div 4,
       (bytes[1] % 4) * 16 + bytes[2] \div 16,
       (bytes[2] % 16) * 4, Pad >>
  ELSE
    << bytes[1] \div 4,
       (bytes[1] % 4) * 16 + bytes[2] \div 16,
       (bytes[2] % 16) * 4 + bytes[3] \div 64,
       bytes[3] % 64 >> \o b64encode(SubSeq(bytes, 4, Len(bytes)))

\* binascii.a2b_base64 in its default non-strict mode, one character at a
\* time: quad is the position in the current group of four, left the bits not
\* yet written, pads the run of '=' seen; the result fails on leftover bits.
RECURSIVE a2b_base64(_, _, _, _, _, _)
a2b_base64(s, i, quad, left, pads, out) ==
  IF i > Len(s) THEN
    IF quad # 0 THEN [ok |-> FALSE, data |-> <<>>]
    ELSE [ok |-> TRUE, data |-> out]
  ELSE IF s[i] = Pad THEN
    IF quad >= 2 /\ quad + pads + 1 >= 4
    THEN [ok |-> TRUE, data |-> out]
    ELSE a2b_base64(s, i + 1, quad, left,
                    IF quad >= 2 THEN pads + 1 ELSE pads, out)
  ELSE IF quad = 0 THEN a2b_base64(s, i + 1, 1, s[i], 0, out)
  ELSE IF quad = 1 THEN
    a2b_base64(s, i + 1, 2, s[i] % 16, 0, Append(out, left * 4 + s[i] \div 16))
  ELSE IF quad = 2 THEN
    a2b_base64(s, i + 1, 3, s[i] % 4, 0, Append(out, left * 16 + s[i] \div 4))
  ELSE
    a2b_base64(s, i + 1, 0, 0, 0, Append(out, left * 64 + s[i]))

\* base64.b64decode(s): the bytes, or binascii.Error.
b64decode_lenient(s) == [ok |-> TRUE, data |-> a2b_base64(s, 1, 0, 0, 0, <<>>).data]
b64decode(s) == a2b_base64(s, 1, 0, 0, 0, <<>>)

\* ------------------------------------------- the enhancement service's answers
\* Texts are sequences of string tokens, so that a formatted message keeps
\* its parts.
OutputBytes == {<<77, 97>>, <<77, 97, 110, 33>>}
BadB64 == <<19, 22, 5>>           \* three data characters, no padding

HttpStatusText(code) ==
  IF code = 200 THEN "200" ELSE IF code = 503 THEN "503" ELSE "404"

SuccessBodies ==
  {[success |-> TRUE, output_image |-> b64encode(b),
    original_size |-> "1x1", output_size |-> "4x4"] : b \in OutputBytes}
  \cup {[success |-> TRUE, output_image |-> BadB64,
         original_size |-> "1x1", output_size |-> "4x4"],
        [success |-> TRUE, original_size |-> "1x1", output_size |-> "4x4"]}

FailureBodies ==
  {[success |-> FALSE, error |-> <<"bad image">>], [success |-> FALSE]}

\* A response of requests.post(API_URL): a raised exception, or a status code
\* with its body; json is the parsed body, None when the body is not JSON.
HttpResponse(code, text, json) ==
  [raised |-> FALSE, status_code |-> code, text |-> text, json |-> json]

SessionResponses ==
  {[raised |-> TRUE, message |-> <<"timeout">>]}
  \cup {HttpResponse(c, <<"busy">>, None) : c \in {503, 404}}
  \cup {HttpResponse(200, <<"<html>">>, None)}
  \cup {HttpResponse(200, <<"{...}">>, Some(b)) : b \in SuccessBodies \cup FailureBodies}

\* The concurrent specification draws one answer of each kind.
Responses ==
  {r \in SessionResponses :
     \/ r.raised
     \/ ~r.raised /\ r.status_code = 503
     \/ ~r.raised /\ r.json # None /\
          LET b == TheVal(r.json) IN
            \/ "error" \in DOMAIN b
            \/ "output_image" \notin DOMAIN b /\ b.success
            \/ "output_image" \in DOMAIN b /\ b.output_image = b64encode(<<77, 97>>)}


\* -------------------------------------------------------------------- state
VARIABLES
  accounts,     \* the accounts table: API key -> fields of its record
  logs,         \* the logs table: the entries created, in creation order
  pc,           \* per caller: where it is inside enhance_image
  api_key,      \* per caller: enhance_image's api_key argument
  req,          \* per caller: enhance_image's scale and format_type arguments
  status,       \* per caller: the status the call logs ("" before the answer)
  error_msg,    \* per caller: error_msg (None on the success path)
  output_data,  \* per caller: the decoded output image (None when not decoded)
  result,       \* per caller: the parsed response body (None when not parsed)
  new_used,     \* per caller: update_credits' record id and new_used
  ret,          \* per caller: the value enhance_image returned (None before)
  checkRet,     \* the value of the last check_api_key_credits call
  calls,        \* history: number of enhance_image invocations started
  accounts0,    \* history: the accounts table at the start
  successes,    \* history, per key: answers that enhance_image took as a success
  logFailures,  \* history: create_record requests the store did not accept
  checkAnswered,\* history: the store answered the query of the last check
  response,     \* history, per caller: the answer its POST got
  usedBefore,   \* history, per caller: Used_credits of its key when it started
  overlap,      \* history, per caller: another call on the same key ran meanwhile
  logCalls,     \* history, per caller: create_record requests the call issued
  created,      \* history, per caller: the log entries the call created
  storeCalls,   \* history, per caller: requests to the accounts table, in order
  failed,       \* history, per caller: the store requests of the call that failed
  session_state,\* per session: st.session_state, a dict
  ui,           \* per session: the widgets of the page and main's credits_ok
  file_name     \* the last value of get_correct_filename, with its arguments

locals == <<pc, api_key, req, status, error_msg, output_data, result, new_used, ret>>
global == <<calls, accounts0, successes, logFailures>>
percall == <<response, usedBefore, overlap, logCalls, created, storeCalls, failed>>
uivars == <<session_state, ui, file_name>>
vars == <<accounts, logs, locals, checkRet, checkAnswered, global, percall, uivars>>

\* The fields of an account record; Airtable leaves an empty field out.
FieldSets(max) ==
  UNION {[d -> 0..max] : d \in SUBSET {"Used_credits", "Allowed_credits"}}

\* The records as provisioned: both fields filled in, or a fresh account
\* whose Used_credits is still empty.
ProvisionedFieldSets(max) ==
  [{"Used_credits", "Allowed_credits"} -> 0..max]
  \cup [{"Allowed_credits"} -> {max}]

\* The accounts tables: every key has no record or one record.
AccountTables(fieldSets) ==
  UNION {[d -> fieldSets] : d \in SUBSET Keys}

Used(table, k) == DictGet(table[k], "Used_credits", 0)
Allowed(table, k) == DictGet(table[k], "Allowed_credits", 0)

Returned(p) == pc[p] \in {"done", "raised"}
Active(p) == pc[p] \notin {"idle", "done", "raised"}

\* ------------------------------------------------------------ AirtableClient
\* Each method catches requests.exceptions.RequestException, reports it and
\* returns an empty value (lines 47-49, 60-62, 73-75): no store request raises
\* into its caller.
StoreRaisesOnFailure(storeOk) == ~storeOk
StoreRaises(storeOk) == FALSE

\* get_records with the filter {API_KEY} = '<key>': the matching records, or
\* the empty list when the request fails.
get_records(key, storeOk) ==
  IF storeOk /\ key \in DOMAIN accounts
  THEN << [id |-> key, fields |-> accounts[key]] >>
  ELSE << >>

\* create_record on the logs table: the table after the request.
create_record_overwrite(fields, storeOk) ==
  IF ~storeOk THEN logs
  ELSE IF logs = << >> THEN << fields >>
  ELSE [logs EXCEPT ![Len(logs)] = fields]
create_record(fields, storeOk) ==
  IF storeOk THEN Append(logs, fields) ELSE logs

\* update_record on the accounts table: the table after the PATCH, which
\* sets the given fields and keeps the others.
update_record_all(record_id, fields, storeOk) ==
  IF storeOk /\ record_id \in DOMAIN accounts
  THEN [k \in DOMAIN accounts |->
          [f \in DOMAIN accounts[k] \cup DOMAIN fields |->
             IF f \in DOMAIN fields THEN fields[f] ELSE accounts[k][f]]]
  ELSE accounts
update_record(record_id, fields, storeOk) ==
  IF storeOk /\ record_id \in DOMAIN accounts
  THEN [accounts EXCEPT ![record_id] =
          [f \in DOMAIN accounts[record_id] \cup DOMAIN fields |->
             IF f \in DOMAIN fields THEN fields[f] ELSE accounts[record_id][f]]]
  ELSE accounts

\* ---------------------------------------------------- check_api_key_credits
\* The test of line 102.
NoCreditsLeftStrict(remaining) == remaining < 0
NoCreditsLeft(remaining) == remaining <= 0

\* The value returned: credits_ok (None, False or True) and the message, kept
\* as its text and the numbers formatted into it.
check_api_key_credits(key, storeOk) ==
  LET records == get_records(key, storeOk) IN
  IF records = << >> THEN
    [credits_ok |-> None,
     message |-> [text |-> "Clé API non trouvée", remaining |-> None,
                  used |-> None, allowed |-> None]]
  ELSE
    LET fields == records[1].fields
        used == DictGet(fields, "Used_credits", 0)
        allowed == DictGet(fields, "Allowed_credits", 0)
        remaining == allowed - used
    IN IF NoCreditsLeft(remaining) THEN
         [credits_ok |-> Some(FALSE),
          message |-> [text |-> "Plus de crédits restants", remaining |-> None,
                       used |-> Some(used), allowed |-> Some(allowed)]]
       ELSE
         [credits_ok |-> Some(TRUE),
          message |-> [text |-> "crédits restants", remaining |-> Some(remaining),
                       used |-> Some(used), allowed |-> Some(allowed)]]

\* ------------------------------------------------------------- log_api_call
\* The entry log_api_call builds (timestamp and processing_time are wall-clock
\* readings and are left out).
log_entry(key, st, original_size, output_size, scale, format_type, error_message) ==
  [api_key |-> key, status |-> st,
   original_size |-> original_size, output_size |-> output_size,
   scale |-> scale, format |-> format_type, error_message |-> error_message]

\* ------------------------------------------------------------ enhance_image
\* The test of line 164.
HttpOkBelow500(status_code) == status_code < 500
HttpOk(status_code) == status_code = 200

\* What enhance_image makes of the answer to its POST, up to the point where
\* it logs: the status it will log, error_msg, output_data and result.
EnhanceOutcome(r) ==
  LET exception(msg, res) ==
        [status |-> "exception", error_msg |-> Some(msg),
         output_data |-> None, result |-> res]
  IN
  IF r.raised THEN exception(r.message, None)
  ELSE IF HttpOk(r.status_code) THEN
    IF r.json = None THEN exception(<<"Expecting value">>, None)
    ELSE LET body == TheVal(r.json) IN
      IF DictGet(body, "success", FALSE) THEN
        IF "output_image" \notin DOMAIN body
        THEN exception(<<"'output_image'">>, r.json)
        ELSE LET dec == b64decode(body["output_image"]) IN
          IF ~dec.ok THEN exception(<<"Incorrect padding">>, r.json)
          ELSE [status |-> "success", error_msg |-> None,
                output_data |-> Some(dec.data), result |-> r.json]
      ELSE [status |-> "api_error",
            error_msg |-> Some(DictGet(body, "error", <<"Erreur inconnue">>)),
            output_data |-> None, result |-> r.json]
  ELSE [status |-> "http_error",
        error_msg |-> Some(<<"HTTP ", HttpStatusText(r.status_code), ": ">> \o r.text),
        output_data |-> None, result |-> None]

\* update_credits is called on the success branch only (lines 166-182).
ChargesAlways(st) == TRUE
Charges(st) == st = "success"

\* new_used of update_credits (line 118).
NewUsedUnchanged(current_used, increment) == current_used
NewUsedDouble(current_used, increment) == current_used + 2 * increment
NewUsed(current_used, increment) == current_used + increment

\* The values enhance_image returns (lines 184, 195, 206, 219).
SuccessReturn(p) ==
  Some([ok |-> TRUE, data |-> output_data[p], details |-> result[p]])
FailureReturn(msg) ==
  Some([ok |-> FALSE, data |-> None, details |-> Some([error |-> msg])])

\* The except clause of enhance_image (lines 208-210) taking over after a
\* store request raised inside the try block.
Handler(p) ==
  /\ status' = [status EXCEPT ![p] = "exception"]
  /\ error_msg' = [error_msg EXCEPT ![p] = Some(<<"store request failed">>)]
  /\ pc' = [pc EXCEPT ![p] = "log"]
  /\ ret' = ret

InitLocals ==
  /\ accounts0 = accounts
  /\ logs = << >>
  /\ pc = [p \in Callers |-> "idle"]
  /\ api_key = [p \in Callers |-> "K1"]
  /\ req = [p \in Callers |-> [scale |-> DefaultScale, format |-> "JPEG"]]
  /\ status = [p \in Callers |-> ""]
  /\ error_msg = [p \in Callers |-> None]
  /\ output_data = [p \in Callers |-> None]
  /\ result = [p \in Callers |-> None]
  /\ new_used = [p \in Callers |-> None]
  /\ ret = [p \in Callers |-> None]
  /\ checkRet = None
  /\ checkAnswered = FALSE
  /\ calls = 0
  /\ successes = [k \in Keys |-> 0]
  /\ logFailures = 0
  /\ response = [p \in Callers |-> None]
  /\ usedBefore = [p \in Callers |-> None]
  /\ overlap = [p \in Callers |-> FALSE]
  /\ logCalls = [p \in Callers |-> 0]
  /\ created = [p \in Callers |-> << >>]
  /\ storeCalls = [p \in Callers |-> << >>]
  /\ failed = [p \in Callers |-> {}]
  /\ session_state = [p \in Callers |-> << >>]
  /\ ui = [p \in Callers |->
            [api_key |-> "", uploaded_file |-> None, page |-> "key",
             rerun |-> FALSE, gate |-> "none", credits_ok |-> None]]
  /\ file_name = None

\* The sessions start against provisioned accounts.
Init ==
  /\ accounts \in AccountTables(ProvisionedFieldSets(MaxCredits))
  /\ InitLocals

\* One session, against accounts with any fields, empty ones included.
InitSession ==
  /\ accounts \in AccountTables(FieldSets(MaxCredits))
  /\ InitLocals

\* The accounts any history of calls and edits can leave behind, for the
\* specification of check_api_key_credits alone.
InitCheck ==
  /\ accounts \in AccountTables(FieldSets(MaxCheckCredits))
  /\ InitLocals

\* A caller enters enhance_image (lines 145-158): the arguments are bound.
\* Nothing is looked up before the request is sent.
Enter(p, k, rq) ==
  /\ ~Active(p)
  /\ calls' = calls + 1
  /\ pc' = [pc EXCEPT ![p] = "post"]
  /\ api_key' = [api_key EXCEPT ![p] = k]
  /\ req' = [req EXCEPT ![p] = rq]
  /\ status' = [status EXCEPT ![p] = ""]
  /\ error_msg' = [error_msg EXCEPT ![p] = None]
  /\ output_data' = [output_data EXCEPT ![p] = None]
  /\ result' = [result EXCEPT ![p] = None]
  /\ new_used' = [new_used EXCEPT ![p] = None]
  /\ ret' = [ret EXCEPT ![p] = None]
  /\ response' = [response EXCEPT ![p] = None]
  /\ usedBefore' = [usedBefore EXCEPT ![p] =
       IF k \in DOMAIN accounts THEN Some(Used(accounts, k)) ELSE None]
  /\ overlap' = [q \in Callers |->
       IF q = p THEN \E o \in Callers \ {p} : Active(o) /\ api_key[o] = k
       ELSE IF Active(q) /\ api_key[q] = k THEN TRUE ELSE overlap[q]]
  /\ logCalls' = [logCalls EXCEPT ![p] = 0]
  /\ created' = [created EXCEPT ![p] = << >>]
  /\ storeCalls' = [storeCalls EXCEPT ![p] = << >>]
  /\ failed' = [failed EXCEPT ![p] = {}]
  /\ UNCHANGED <<accounts, logs, checkRet, checkAnswered, accounts0, successes,
                 logFailures>>

StartGated(p, k, rq) ==
  /\ k \in DOMAIN accounts
  /\ Allowed(accounts, k) - Used(accounts, k) > 0
  /\ Enter(p, k, rq)
StartSerialized(p, k, rq) ==
  /\ \A o \in Callers \ {p} : ~(Active(o) /\ api_key[o] = k)
  /\ Enter(p, k, rq)
Start(p, k, rq) == Enter(p, k, rq)

\* requests.post(API_URL, ...) returns or raises, and the answer is examined
\* (lines 161-168, 186, 197, 208-210).
Respond(p, r) ==
  /\ pc[p] = "post"
  /\ LET o == EnhanceOutcome(r) IN
       /\ status' = [status EXCEPT ![p] = o.status]
       /\ error_msg' = [error_msg EXCEPT ![p] = o.error_msg]
       /\ output_data' = [output_data EXCEPT ![p] = o.output_data]
       /\ result' = [result EXCEPT ![p] = o.result]
       /\ successes' = [successes EXCEPT ![api_key[p]] =
                          IF o.status = "success" THEN @ + 1 ELSE @]
  /\ response' = [response EXCEPT ![p] = Some(r)]
  /\ pc' = [pc EXCEPT ![p] = "log"]
  /\ UNCHANGED <<accounts, logs, api_key, req, new_used, ret, checkRet,
                 checkAnswered, calls, accounts0, logFailures, usedBefore,
                 overlap, logCalls, created, storeCalls, failed>>

\* log_api_call (lines 171-179, 187-194, 198-205, 211-218); a failed call
\* returns right after it.
log_api_call(p, storeOk) ==
  /\ pc[p] = "log"
  /\ LET body == IF result[p] = None THEN << >> ELSE TheVal(result[p])
         size(name) == IF status[p] = "success" /\ name \in DOMAIN body
                       THEN Some(body[name]) ELSE None
         entry == log_entry(api_key[p], status[p], size("original_size"),
                            size("output_size"), req[p].scale, req[p].format,
                            error_msg[p])
     IN /\ logs' = create_record(entry, storeOk)
        /\ created' = [created EXCEPT ![p] =
                         IF storeOk THEN Append(@, entry) ELSE @]
  /\ logCalls' = [logCalls EXCEPT ![p] = @ + 1]
  /\ logFailures' = IF storeOk THEN logFailures ELSE logFailures + 1
  /\ failed' = [failed EXCEPT ![p] = IF storeOk THEN @ ELSE @ \cup {"create"}]
  /\ IF StoreRaises(storeOk) THEN
       IF status[p] = "exception"
       THEN /\ pc' = [pc EXCEPT ![p] = "raised"]
            /\ UNCHANGED <<status, error_msg, ret>>
       ELSE Handler(p)
     ELSE IF Charges(status[p])
     THEN /\ pc' = [pc EXCEPT ![p] = "query"]
          /\ UNCHANGED <<status, error_msg, ret>>
     ELSE /\ pc' = [pc EXCEPT ![p] = "done"]
          /\ ret' = [ret EXCEPT ![p] = FailureReturn(TheVal(error_msg[p]))]
          /\ UNCHANGED <<status, error_msg>>
  /\ UNCHANGED <<accounts, api_key, req, output_data, result, new_used,
                 checkRet, checkAnswered, calls, accounts0, successes,
                 response, usedBefore, overlap, storeCalls>>

\* The call of log_api_call in enhance_image: made once, whatever the store
\* answers; no branch goes back to it.
LogRetrying(p, storeOk) ==
  IF storeOk THEN log_api_call(p, storeOk)
  ELSE /\ pc[p] = "log"
       /\ logCalls' = [logCalls EXCEPT ![p] = @ + 1]
       /\ logFailures' = logFailures + 1
       /\ failed' = [failed EXCEPT ![p] = @ \cup {"create"}]
       /\ UNCHANGED <<accounts, logs, locals, checkRet, checkAnswered, calls,
                      accounts0, successes, response, usedBefore, overlap,
                      created, storeCalls>>
Log(p, storeOk) == log_api_call(p, storeOk)

\* update_credits, first half (lines 109-118): the account is queried.
Query(p, storeOk) ==
  /\ pc[p] = "query"
  /\ LET records == get_records(api_key[p], storeOk) IN
       IF StoreRaises(storeOk) THEN Handler(p) /\ new_used' = new_used
       ELSE IF records # << >>
       THEN /\ new_used' = [new_used EXCEPT ![p] =
                 Some([id |-> records[1].id,
                       value |-> NewUsed(DictGet(records[1].fields,
                                                 "Used_credits", 0), 1)])]
            /\ pc' = [pc EXCEPT ![p] = "update"]
            /\ UNCHANGED <<status, error_msg, ret>>
       ELSE /\ new_used' = new_used
            /\ pc' = [pc EXCEPT ![p] = "done"]
            /\ ret' = [ret EXCEPT ![p] = SuccessReturn(p)]
            /\ UNCHANGED <<status, error_msg>>
  /\ storeCalls' = [storeCalls EXCEPT ![p] = Append(@, "query")]
  /\ failed' = [failed EXCEPT ![p] = IF storeOk THEN @ ELSE @ \cup {"query"}]
  /\ UNCHANGED <<accounts, logs, api_key, req, output_data, result, checkRet,
                 checkAnswered, global, response, usedBefore, overlap,
                 logCalls, created>>

\* update_credits, second half (lines 121-124), and the return (line 184).
Update(p, storeOk) ==
  /\ pc[p] = "update"
  /\ LET u == TheVal(new_used[p]) IN
       accounts' = update_record(u.id, [Used_credits |-> u.value], storeOk)
  /\ IF StoreRaises(storeOk) THEN Handler(p)
     ELSE /\ pc' = [pc EXCEPT ![p] = "done"]
          /\ ret' = [ret EXCEPT ![p] = SuccessReturn(p)]
          /\ UNCHANGED <<status, error_msg>>
  /\ storeCalls' = [storeCalls EXCEPT ![p] = Append(@, "update")]
  /\ failed' = [failed EXCEPT ![p] = IF storeOk THEN @ ELSE @ \cup {"update"}]
  /\ UNCHANGED <<logs, api_key, req, output_data, result, new_used, checkRet,
                 checkAnswered, global, response, usedBefore, overlap,
                 logCalls, created>>

\* A session calls check_api_key_credits (lines 85-105).
CheckConsuming(k, storeOk) ==
  /\ checkRet' = Some([api_key |-> k] @@ check_api_key_credits(k, storeOk))
  /\ checkAnswered' = storeOk
  /\ accounts' = IF k \in DOMAIN accounts
                 THEN update_record(k, [Used_credits |-> Used(accounts, k) + 1], storeOk)
                 ELSE accounts
  /\ UNCHANGED <<logs, locals, global, percall>>
Check(k, storeOk) ==
  /\ checkRet' = Some([api_key |-> k] @@ check_api_key_credits(k, storeOk))
  /\ checkAnswered' = storeOk
  /\ UNCHANGED <<accounts, logs, locals, global, percall>>

\* Concurrent enhance_image calls of the two sessions.
Next ==
  \/ \E p \in Callers, k \in Keys, rq \in Requests :
       calls < MaxCalls /\ Start(p, k, rq) /\ UNCHANGED uivars
  \/ \E p \in Callers, r \in Responses : Respond(p, r) /\ UNCHANGED uivars
  \/ \E p \in Callers, storeOk \in BOOLEAN : Log(p, storeOk) /\ UNCHANGED uivars
  \/ \E p \in Callers, storeOk \in BOOLEAN : Query(p, storeOk) /\ UNCHANGED uivars
  \/ \E p \in Callers, storeOk \in BOOLEAN : Update(p, storeOk) /\ UNCHANGED uivars

Spec == Init /\ [][Next]_vars

\* One session: credit checks at any moment and one enhance_image call, with
\* every answer of the service.
TheSession == "c1"

NextSession ==
  \/ \E k \in Keys, storeOk \in BOOLEAN : Check(k, storeOk) /\ UNCHANGED uivars
  \/ \E k \in Keys, rq \in Requests :
       calls = 0 /\ Start(TheSession, k, rq) /\ UNCHANGED uivars
  \/ \E r \in SessionResponses : Respond(TheSession, r) /\ UNCHANGED uivars
  \/ \E storeOk \in BOOLEAN : Log(TheSession, storeOk) /\ UNCHANGED uivars
  \/ \E storeOk \in BOOLEAN : Query(TheSession, storeOk) /\ UNCHANGED uivars
  \/ \E storeOk \in BOOLEAN : Update(TheSession, storeOk) /\ UNCHANGED uivars

SpecSession == InitSession /\ [][NextSession]_vars

\* check_api_key_credits alone, over every account record.
NextCheck ==
  \E k \in Keys, storeOk \in BOOLEAN : Check(k, storeOk) /\ UNCHANGED uivars

SpecCheck == InitCheck /\ [][NextCheck]_vars

\* ------------------------------------------------------------------ claims
\* The answers that are an enhancement Success: HTTP 200, success=true and an
\* output_image that is the base64 text of some bytes.
IsSuccessAnswer(r) ==
  /\ ~r.raised
  /\ r.status_code = 200
  /\ r.json # None
  /\ LET body == TheVal(r.json) IN
       /\ body.success
       /\ "output_image" \in DOMAIN body
       /\ \E b \in OutputBytes : b64encode(b) = body.output_image

\* The step in which caller p returns from enhance_image.
Returns(p) == Active(p) /\ pc'[p] = "done"

\* C1: a call of enhance_image that returns ok=false never consumes a credit:
\* no step of a call whose status is not "success" writes to the accounts
\* table, a call that returns ok=false is such a call, and when no other call
\* on the same key ran meanwhile the Used_credits of its key is, at the
\* return, what it was when the call started.
C1_FailedSubmitKeepsCredits ==
  [][\A p \in Callers :
       /\ (pc'[p] # pc[p] /\ status'[p] # "success") => accounts' = accounts
       /\ (Returns(p) /\ ~TheVal(ret'[p]).ok) =>
            /\ status'[p] # "success"
            /\ (~overlap[p] /\ api_key[p] \in DOMAIN accounts) =>
                 Some(Used(accounts', api_key[p])) = usedBefore[p]]_vars

C1_Witness ==
  \E p \in Callers :
    /\ pc[p] = "done" /\ ~TheVal(ret[p]).ok /\ ~overlap[p]
    /\ status[p] = "http_error"
    /\ api_key[p] \in DOMAIN accounts
    /\ usedBefore[p] = Some(Used(accounts, api_key[p]))
    /\ accounts # accounts0

\* C2 as stated: after any sequence of completed enhance_image calls the
\* number of audit entries equals the number of calls.
C2_OneEntryPerSubmit ==
  (\A p \in Callers : ~Active(p)) => Len(logs) = calls

\* C2 as amended: every call issues exactly one create request on the logs
\* table and creates at most one entry, exactly one when the store accepts
\* the request and none when it fails; once all calls have returned the
\* number of entries is the number of calls minus the failed log writes;
\* entries are only appended, never modified or deleted.
C2_OneLogRequestPerSubmit ==
  /\ [](\A p \in Callers :
          /\ Len(created[p]) <= 1
          /\ logCalls[p] <= 1
          /\ Returned(p) =>
               /\ logCalls[p] = 1
               /\ Len(created[p]) = (IF "create" \in failed[p] THEN 0 ELSE 1))
  /\ []((\A p \in Callers : ~Active(p)) => Len(logs) = calls - logFailures)
  /\ [][/\ Len(logs') \in {Len(logs), Len(logs) + 1}
        /\ SubSeq(logs', 1, Len(logs)) = logs]_vars

C2_Witness ==
  /\ \A p \in Callers : pc[p] = "done"
  /\ calls = 2 /\ logFailures = 0
  /\ Len(logs) = 2
  /\ logs[1].status = "success" /\ logs[2].status = "exception"

\* C3 as stated: a call that returns ok=true, with no other call on the same
\* key running meanwhile, has created exactly one audit entry with status
\* "success" and left Used_credits at its value before the call plus 1.
C3_SuccessChargesOne ==
  [][\A p \in Callers :
       (Returns(p) /\ TheVal(ret'[p]).ok /\ ~overlap[p]) =>
         /\ Len(created'[p]) = 1 /\ created'[p][1].status = "success"
         /\ api_key[p] \in DOMAIN accounts'
         /\ Some(Used(accounts', api_key[p]) - 1) = usedBefore[p]]_vars

\* C3 as amended: for a call that returns ok=true with no other call on the
\* same key running meanwhile: when the account exists and the query and the
\* update succeed, Used_credits is its value before the call plus 1, and
\* otherwise it is unchanged; when the log write succeeds exactly one audit
\* entry, with status "success", is created, and otherwise none.
C3_SuccessChargesOneIfStoreAnswers ==
  [][\A p \in Callers :
       (Returns(p) /\ TheVal(ret'[p]).ok /\ ~overlap[p]) =>
         /\ IF "create" \in failed'[p] THEN created'[p] = << >>
            ELSE /\ Len(created'[p]) = 1
                 /\ created'[p][1].status = "success"
                 /\ created'[p][1].api_key = api_key[p]
         /\ api_key[p] \in DOMAIN accounts' =>
              Some(Used(accounts', api_key[p])
                   - (IF failed'[p] \cap {"query", "update"} = {} THEN 1 ELSE 0))
                = usedBefore[p]]_vars

C3_Witness ==
  \E p \in Callers :
    /\ pc[p] = "done" /\ TheVal(ret[p]).ok /\ ~overlap[p] /\ failed[p] = {}
    /\ api_key[p] \in DOMAIN accounts
    /\ usedBefore[p] = Some(Used(accounts, api_key[p]) - 1)
    /\ Len(created[p]) = 1 /\ created[p][1].status = "success"

\* C4: credits are never double-charged: for every account, the amount by
\* which Used_credits exceeds its initial value is at most the number of
\* enhance_image calls on its key whose outcome was a success.
C4_NoDoubleCharge ==
  \A k \in DOMAIN accounts :
    Used(accounts, k) - Used(accounts0, k) <= successes[k]

\* Two successes on one key, every store request answered, one credit lost.
C4_Witness ==
  \E k \in DOMAIN accounts :
    /\ successes[k] = 2
    /\ Used(accounts, k) - Used(accounts0, k) = 1
    /\ \A p \in Callers : pc[p] = "done" /\ failed[p] = {} /\ api_key[p] = k

\* C5 as stated: the audit entry's status and the returned value match the
\* answer: a raised request gives "exception" and ok=false; a status code
\* other than 200 gives "http_error", ok=false and a message that starts with
\* "HTTP <status>"; 200 with success=false gives "api_error" and ok=false with
\* the server's error text; 200 with success=true gives "success" and ok=true
\* with the decoded bytes; ok=true exactly when the entry written has status
\* "success".
C5_StatusMatchesOutcome ==
  \A p \in Callers : pc[p] = "done" =>
    LET r == TheVal(response[p])
        out == TheVal(ret[p])
        error == TheVal(out.details).error
        logged(st) == Len(created[p]) = 1 /\ created[p][1].status = st
    IN /\ r.raised => logged("exception") /\ ~out.ok
       /\ (~r.raised /\ r.status_code # 200) =>
            /\ logged("http_error") /\ ~out.ok
            /\ SubSeq(error, 1, 2) = <<"HTTP ", HttpStatusText(r.status_code)>>
       /\ (~r.raised /\ r.status_code = 200 /\ r.json # None) =>
            LET body == TheVal(r.json) IN
              IF body.success
              THEN /\ logged("success") /\ out.ok
                   /\ "output_image" \in DOMAIN body
                   /\ \E b \in OutputBytes :
                        b64encode(b) = body.output_image /\ out.data = Some(b)
              ELSE /\ logged("api_error") /\ ~out.ok
                   /\ "error" \in DOMAIN body => error = body.error
       /\ out.ok <=> logged("success")

\* C5 as amended: the status handed to the logger and the returned value
\* match the answer as stated, except that 200 with success=true gives
\* "success" and ok=true with the decoded bytes only when output_image is
\* present and decodes, and gives "exception" and ok=false otherwise, as does
\* a 200 whose body is not JSON; the audit entry, when the store accepts it,
\* carries that status; ok=true exactly when the status handed to the logger
\* is "success".
C5_StatusMatchesDecodedOutcome ==
  \A p \in Callers : pc[p] = "done" =>
    LET r == TheVal(response[p])
        out == TheVal(ret[p])
        error == TheVal(out.details).error
        logged(st) == /\ status[p] = st
                      /\ logCalls[p] = 1
                      /\ \A i \in 1..Len(created[p]) : created[p][i].status = st
    IN /\ r.raised => logged("exception") /\ ~out.ok /\ error = r.message
       /\ (~r.raised /\ r.status_code # 200) =>
            /\ logged("http_error") /\ ~out.ok
            /\ SubSeq(error, 1, 2) = <<"HTTP ", HttpStatusText(r.status_code)>>
       /\ (~r.raised /\ r.status_code = 200 /\ r.json = None) =>
            logged("exception") /\ ~out.ok
       /\ (~r.raised /\ r.status_code = 200 /\ r.json # None) =>
            LET body == TheVal(r.json) IN
              IF IsSuccessAnswer(r)
              THEN /\ logged("success") /\ out.ok
                   /\ \E b \in OutputBytes :
                        b64encode(b) = body.output_image /\ out.data = Some(b)
                   /\ out.details = r.json
              ELSE IF body.success
              THEN logged("exception") /\ ~out.ok
              ELSE /\ logged("api_error") /\ ~out.ok
                   /\ "error" \in DOMAIN body => error = body.error
       /\ out.ok <=> status[p] = "success"
       /\ ~out.ok => out.data = None /\ error = TheVal(error_msg[p])

C5_Witness ==
  /\ pc[TheSession] = "done"
  /\ response[TheSession] = Some(HttpResponse(404, <<"busy">>, None))
  /\ created[TheSession] # << >>
  /\ created[TheSession][1].status = "http_error"
  /\ ~TheVal(ret[TheSession]).ok
  /\ TheVal(TheVal(ret[TheSession]).details).error = <<"HTTP ", "404", ": ", "busy">>

\* C6: a store failure during the log write or the credit increment never
\* changes the result: when the answer is a Success, enhance_image returns
\* ok=true with the decoded bytes whatever store requests failed; the call
\* still issues one create request, creates no second entry, and the failing
\* request leaves both tables as they were.
C6_StoreFailureKeepsResult ==
  /\ [](\A p \in Callers :
          (Returned(p) /\ IsSuccessAnswer(TheVal(response[p]))) =>
            /\ pc[p] = "done"
            /\ TheVal(ret[p]).ok
            /\ \E b \in OutputBytes :
                 /\ b64encode(b) = TheVal(TheVal(response[p]).json).output_image
                 /\ TheVal(ret[p]).data = Some(b)
            /\ logCalls[p] = 1
            /\ Len(created[p]) <= 1)
  /\ [][\A p \in Callers :
          failed'[p] \ failed[p] # {} => accounts' = accounts /\ logs' = logs]_vars

C6_Witness ==
  \E p \in Callers :
    /\ pc[p] = "done" /\ TheVal(ret[p]).ok
    /\ failed[p] = {"create", "update"}
    /\ created[p] = << >>
    /\ TheVal(ret[p]).data = Some(<<77, 97>>)

C8_UnavailableDistinctFromNotFound ==
  (checkRet # None /\ ~checkAnswered) =>
    TheVal(checkRet) #
      [api_key |-> TheVal(checkRet).api_key, credits_ok |-> None,
       message |-> [text |-> "Clé API non trouvée", remaining |-> None,
                    used |-> None, allowed |-> None]]

\* C9: check_api_key_credits never mutates state: a step that is not a step
\* of enhance_image leaves the accounts and the logs as they are; no step
\* adds or removes an account or changes Allowed_credits; and Used_credits
\* changes only in the update of a call whose status is "success", and only
\* for that call's key.
C9_CheckMutatesNothing ==
  [][/\ pc' = pc => accounts' = accounts /\ logs' = logs
     /\ DOMAIN accounts' = DOMAIN accounts
     /\ \A k \in DOMAIN accounts :
          /\ Allowed(accounts', k) = Allowed(accounts, k)
          /\ ("Allowed_credits" \in DOMAIN accounts'[k])
               = ("Allowed_credits" \in DOMAIN accounts[k])
          /\ Used(accounts', k) # Used(accounts, k) =>
               \E p \in Callers :
                 /\ pc[p] = "update" /\ pc'[p] = "done"
                 /\ status[p] = "success" /\ api_key[p] = k]_vars

\* A successful call has used the last credit and a later check says so.
C9_Witness ==
  /\ checkRet # None /\ checkAnswered
  /\ TheVal(checkRet).credits_ok = Some(FALSE)
  /\ pc[TheSession] = "done" /\ TheVal(ret[TheSession]).ok
  /\ TheVal(checkRet).api_key = api_key[TheSession]
  /\ accounts # accounts0

\* C10: enhance_image does not block on the credit status: it can be entered
\* with any key, exhausted and unknown ones included; once entered, each of
\* its steps can be taken; every call issues its log request, and a call
\* whose status is "success" queries the account and, when the account exists
\* and the store answers, adds 1 to Used_credits whatever Allowed_credits is.
C10_SubmitNotGated ==
  LET p == TheSession IN
  /\ calls = 0 => \A k \in Keys, rq \in Requests : ENABLED Start(p, k, rq)
  /\ pc[p] = "post" => \A r \in SessionResponses : ENABLED Respond(p, r)
  /\ pc[p] = "log" => \A ok \in BOOLEAN : ENABLED Log(p, ok)
  /\ pc[p] = "query" => \A ok \in BOOLEAN : ENABLED Query(p, ok)
  /\ pc[p] = "update" => \A ok \in BOOLEAN : ENABLED Update(p, ok)
  /\ Returned(p) =>
       /\ logCalls[p] = 1
       /\ status[p] = "success" =>
            /\ storeCalls[p] # << >> /\ storeCalls[p][1] = "query"
            /\ (api_key[p] \in DOMAIN accounts
                /\ failed[p] \cap {"query", "update"} = {}) =>
                 /\ storeCalls[p] = <<"query", "update">>
                 /\ Some(Used(accounts, api_key[p]) - 1) = usedBefore[p]

\* An exhausted account is charged beyond Allowed_credits by a single call.
C10_Witness ==
  LET p == TheSession
      k == api_key[TheSession]
  IN /\ pc[p] = "done" /\ TheVal(ret[p]).ok
     /\ k \in DOMAIN accounts
     /\ usedBefore[p] = Some(Allowed(accounts0, k))
     /\ Used(accounts0, k) = Allowed(accounts0, k)
     /\ Used(accounts, k) = Allowed(accounts, k) + 1
     /\ Len(created[p]) = 1

\* ================================================ the download file name
\* A text is the sequence of its characters.
MaxNameLen == 4        \* longest generated original file name

NameChars == {"a", ".", "/"}
PhotoPng == <<"p", "h", "o", "t", "o", ".", "p", "n", "g">>
Photo == <<"p", "h", "o", "t", "o">>
FileNames ==
  UNION {[1..n -> NameChars] : n \in 0..MaxNameLen} \cup {PhotoPng, Photo}
Scales == {2, 4, 8, 16}              \* the selectbox offers 2, 4 and 8
Formats == {"JPEG", "PNG", "WEBP"}   \* the selectbox offers JPEG and PNG

\* str.rfind, as a 1-based position; 0 when the character does not occur.
rfind(p, c) ==
  LET at == {i \in 1..Len(p) : p[i] = c}
  IN  IF at = {} THEN 0 ELSE CHOOSE i \in at : \A j \in at : j <= i

\* The loop of os.path.splitext that skips the leading dots of the last
\* path component: the name splits at dotIndex when a character other
\* than a dot precedes it.
RECURSIVE SkipLeadingDots(_, _, _)
SkipLeadingDots(p, filenameIndex, dotIndex) ==
  IF filenameIndex < dotIndex
  THEN IF p[filenameIndex] # "."
       THEN <<SubSeq(p, 1, dotIndex - 1), SubSeq(p, dotIndex, Len(p))>>
       ELSE SkipLeadingDots(p, filenameIndex + 1, dotIndex)
  ELSE <<p, << >>>>

\* os.path.splitext(p): (root, ext).
splitext(p) ==
  LET sepIndex == rfind(p, "/")
      dotIndex == rfind(p, ".")
  IN  IF dotIndex > sepIndex
      THEN SkipLeadingDots(p, sepIndex + 1, dotIndex)
      ELSE <<p, << >>>>

\* str(n) of a natural number: its decimal digits.
RECURSIVE str(_)
str(n) ==
  LET digit == <<"0", "1", "2", "3", "4", "5", "6", "7", "8", "9">>[(n % 10) + 1]
  IN  IF n < 10 THEN <<digit>> ELSE Append(str(n \div 10), digit)

\* Line 226: extension = "jpg" if format_type == "JPEG" else "png".
extensionJpgUnlessPng(format_type) ==
  IF format_type = "PNG" THEN <<"p", "n", "g">> ELSE <<"j", "p", "g">>
extension(format_type) ==
  IF format_type = "JPEG" THEN <<"j", "p", "g">> ELSE <<"p", "n", "g">>

\* get_correct_filename (lines 221-228).
get_correct_filename(original_filename, scale, format_type) ==
  LET base_name == splitext(original_filename)[1]
  IN  str(scale) \o <<"x", "_">> \o base_name \o <<".">> \o extension(format_type)

\* One call of get_correct_filename; it touches neither store nor session.
Filename(original_filename, scale, format_type) ==
  /\ file_name' = Some([original_filename |-> original_filename,
                        scale |-> scale,
                        format_type |-> format_type,
                        value |-> get_correct_filename(original_filename, scale,
                                                       format_type)])
  /\ UNCHANGED <<accounts, logs, locals, checkRet, checkAnswered, global,
                 percall, session_state, ui>>

InitFilename ==
  /\ accounts = [k \in Keys |-> [Used_credits |-> 0, Allowed_credits |-> 0]]
  /\ InitLocals

NextFilename ==
  \E n \in FileNames, s \in Scales, f \in Formats : Filename(n, s, f)

SpecFilename == InitFilename /\ [][NextFilename]_vars

\* The extension of a name, read off the name: it starts at the last dot,
\* that dot lies in the last path component and follows a character of
\* that component other than a dot.  0 when the name has no extension.
ExtensionStart(n) ==
  LET starts ==
        {d \in 1..Len(n) :
           /\ n[d] = "."
           /\ \A j \in (d + 1)..Len(n) : n[j] \notin {".", "/"}
           /\ \E j \in 1..(d - 1) :
                /\ n[j] # "."
                /\ \A i \in j..(d - 1) : n[i] # "/"}
  IN  IF starts = {} THEN 0 ELSE CHOOSE d \in starts : TRUE

ScaleText == (2 :> <<"2">>) @@ (4 :> <<"4">>) @@ (8 :> <<"8">>) @@ (16 :> <<"1", "6">>)

\* C12: for every original file name, scale and format get_correct_filename
\* returns "<scale>x_<base name>.<ext>", where the base name is the original
\* name without its last extension (the whole name when it has none) and ext
\* is "jpg" for format "JPEG" and "png" for every other format;
\* ("photo.png", 4, "JPEG") gives "4x_photo.jpg" and ("photo", 2, "PNG")
\* gives "2x_photo.png".
C12_FilenameShape ==
  \A f \in file_name :
    LET n == f.original_filename
        d == ExtensionStart(n)
        base == IF d = 0 THEN n ELSE SubSeq(n, 1, d - 1)
        ext == IF f.format_type = "JPEG" THEN <<"j", "p", "g">> ELSE <<"p", "n", "g">>
    IN  /\ f.value = ScaleText[f.scale] \o <<"x", "_">> \o base \o <<".">> \o ext
        /\ (n = PhotoPng /\ f.scale = 4 /\ f.format_type = "JPEG")
             => f.value = <<"4", "x", "_", "p", "h", "o", "t", "o", ".", "j", "p", "g">>
        /\ (n = Photo /\ f.scale = 2 /\ f.format_type = "PNG")
             => f.value = <<"2", "x", "_", "p", "h", "o", "t", "o", ".", "p", "n", "g">>

\* A name with an extension other than the one of the format was renamed.
C12_Witness ==
  \E f \in file_name :
    /\ f.original_filename = PhotoPng
    /\ f.format_type = "WEBP"
    /\ f.scale = 16
    /\ f.value = <<"1", "6", "x", "_", "p", "h", "o", "t", "o", ".", "p", "n", "g">>

\* ====================================================== order of the steps
\* C13 as stated: the increment is attempted only once the audit entry with
\* status "success" is in the log.
C13_IncrementAfterAuditEntry ==
  \A p \in Callers :
    storeCalls[p] # << >> =>
      /\ Len(created[p]) = 1
      /\ created[p][1].status = "success"

\* C13: within one enhance_image call nothing is requested from the store
\* before the enhancement call has returned; the increment is attempted only
\* after the one log request with status "success" has been issued, whether
\* or not the store accepted it; and a call that logs any other status never
\* attempts the increment.
C13_FixedOrder ==
  /\ [](\A p \in Callers :
          /\ response[p] = None =>
               logCalls[p] = 0 /\ created[p] = << >> /\ storeCalls[p] = << >>
          /\ storeCalls[p] # << >> =>
               /\ logCalls[p] = 1
               /\ status[p] = "success"
               /\ \A i \in 1..Len(created[p]) : created[p][i].status = "success"
          /\ status[p] \notin {"", "success"} => storeCalls[p] = << >>)
  /\ [][\A p \in Callers :
          (pc[p] = "post" /\ pc'[p] # "post") =>
            accounts' = accounts /\ logs' = logs]_vars

\* A successful call whose log request failed went on to increment.
C13_Witness ==
  \E p \in Callers :
    /\ pc[p] = "done"
    /\ storeCalls[p] = <<"query", "update">>
    /\ logCalls[p] = 1
    /\ created[p] = << >>
    /\ TheVal(ret[p]).ok
    /\ \E q \in Callers \ {p} :
         /\ pc[q] = "done"
         /\ status[q] = "http_error"
         /\ Len(created[q]) = 1
         /\ storeCalls[q] = << >>

\* ================================================================ no retry
\* C16: one enhance_image call sends exactly one request to the enhancement
\* service, at most one create request to the logs table, and at most one
\* query followed by at most one update to the accounts table, also when
\* requests fail.
C16_NoRetry ==
  /\ [](\A p \in Callers :
          /\ logCalls[p] <= 1
          /\ storeCalls[p] \in {<< >>, <<"query">>, <<"query", "update">>}
          /\ pc[p] = "done" => response[p] # None /\ logCalls[p] = 1)
  /\ [][\A p \in Callers :
          (response[p] # None /\ response'[p] # response[p]) =>
            response'[p] = None /\ calls' = calls + 1]_vars

\* A call returned after its log request and its update both failed.
C16_Witness ==
  \E p \in Callers :
    /\ pc[p] = "done"
    /\ failed[p] = {"create", "update"}
    /\ logCalls[p] = 1
    /\ storeCalls[p] = <<"query", "update">>
    /\ \E q \in Callers \ {p} :
         /\ pc[q] = "done"
         /\ failed[q] = {"query"}
         /\ storeCalls[q] = <<"query">>

\* ==================================================== calls on other keys
\* C17: a step of an enhance_image call for key K changes nothing in the
\* accounts table but Used_credits of K's record: the records of the other
\* keys and Allowed_credits of every record stay as they are; and the value
\* the call returns is a function of the answer to its own POST.
C17_OtherKeysUntouched ==
  [][\A p \in Callers :
       pc'[p] # pc[p] =>
         /\ DOMAIN accounts' = DOMAIN accounts
         /\ \A k \in DOMAIN accounts :
              IF k = api_key'[p]
              THEN /\ DOMAIN accounts[k] \subseteq DOMAIN accounts'[k]
                   /\ \A f \in DOMAIN accounts[k] \ {"Used_credits"} :
                        accounts'[k][f] = accounts[k][f]
                   /\ Allowed(accounts', k) = Allowed(accounts, k)
                   /\ accounts'[k] # accounts[k] =>
                        Used(accounts', k) = TheVal(new_used[p]).value
              ELSE accounts'[k] = accounts[k]
         /\ Returns(p) =>
              LET o == EnhanceOutcome(TheVal(response[p])) IN
                ret'[p] = IF o.status = "success"
                          THEN Some([ok |-> TRUE, data |-> o.output_data,
                                     details |-> o.result])
                          ELSE FailureReturn(TheVal(o.error_msg))]_vars

\* One call charged K1 and returned while a call for K2 was about to write;
\* K2's record is as it was at the start.
C17_Witness ==
  /\ DOMAIN accounts = Keys
  /\ pc["c1"] = "done" /\ api_key["c1"] = "K1"
  /\ pc["c2"] = "update" /\ api_key["c2"] = "K2"
  /\ Used(accounts, "K1") = Used(accounts0, "K1") + 1
  /\ accounts["K2"] = accounts0["K2"]
  /\ TheVal(ret["c1"]).ok

\* ============================================ a Success that cannot be used
\* An HTTP 200 answer whose body is not JSON, or says success=true without
\* an output_image or with one that is not base64.
IsMalformedSuccess(r) ==
  /\ ~r.raised
  /\ r.status_code = 200
  /\ \/ r.json = None
     \/ /\ r.json # None
        /\ TheVal(r.json).success
        /\ \/ "output_image" \notin DOMAIN TheVal(r.json)
           \/ /\ "output_image" \in DOMAIN TheVal(r.json)
              /\ TheVal(r.json).output_image = BadB64

\* C19 as stated: such an answer leaves exactly one audit entry, with status
\* "exception".
C19_MalformedSuccessLeavesOneEntry ==
  (pc[TheSession] = "done" /\ IsMalformedSuccess(TheVal(response[TheSession]))) =>
    /\ Len(created[TheSession]) = 1
    /\ created[TheSession][1].status = "exception"

\* C19: when the answer is HTTP 200 with success=true but output_image is
\* missing or undecodable, or the body is not JSON, enhance_image returns
\* ok=false with an error message, issues exactly one log request, with
\* status "exception" (one entry when the store accepts it, none when it
\* does not), writes no entry with status "success" and leaves the accounts
\* as they were without attempting the increment.
C19_MalformedSuccessIsException ==
  (pc[TheSession] = "done" /\ IsMalformedSuccess(TheVal(response[TheSession]))) =>
    LET out == TheVal(ret[TheSession]) IN
      /\ ~out.ok
      /\ out.data = None
      /\ out.details # None
      /\ Len(TheVal(out.details).error) > 0
      /\ status[TheSession] = "exception"
      /\ logCalls[TheSession] = 1
      /\ Len(created[TheSession]) = (IF "create" \in failed[TheSession] THEN 0 ELSE 1)
      /\ logs = created[TheSession]
      /\ \A i \in 1..Len(logs) :
           /\ logs[i].status = "exception"
           /\ logs[i].error_message = Some(TheVal(out.details).error)
      /\ storeCalls[TheSession] = << >>
      /\ accounts = accounts0

\* The answer carried an output_image that is not base64, and the call
\* returned after logging the exception.
C19_Witness ==
  /\ pc[TheSession] = "done"
  /\ response[TheSession] # None
  /\ ~TheVal(response[TheSession]).raised
  /\ TheVal(response[TheSession]).json # None
  /\ "output_image" \in DOMAIN TheVal(TheVal(response[TheSession]).json)
  /\ TheVal(TheVal(response[TheSession]).json).output_image = BadB64
  /\ Len(logs) = 1
  /\ logs[1].status = "exception"
  /\ ~TheVal(ret[TheSession]).ok
  /\ api_key[TheSession] \in DOMAIN accounts
  /\ Used(accounts, api_key[TheSession]) = 1

\* ============================================================= termination
\* The session under the progress the code guarantees.  requests.post to the
\* enhancement service carries timeout=300 (line 161): it returns or raises,
\* so Respond is taken.  The store requests of lines 44, 57 and 70 carry no
\* timeout: requests waits for the store's answer without limit, so nothing
\* obliges Log, Query or Update to be taken.
SpecSessionFair ==
  /\ SpecSession
  /\ WF_vars(\E r \in SessionResponses : Respond(TheSession, r) /\ UNCHANGED uivars)

\* C15: every enhance_image invocation eventually returns a result to its
\* caller, whatever the enhancement service and the store do.
C15_SubmitReturns ==
  (pc[TheSession] = "post") ~> (pc[TheSession] = "done")

\* ============================================================== the ledger
MaxLedgerCalls == 3    \* enhance_image invocations on the one key

LedgerKey == "K1"

\* Two sessions spending the credits of one key, three calls in all.
InitLedger ==
  /\ accounts = [k \in {LedgerKey} |->
                   [Used_credits |-> 0, Allowed_credits |-> MaxLedgerCalls]]
  /\ InitLocals

NextLedger ==
  \/ \E p \in Callers, rq \in Requests :
       calls < MaxLedgerCalls /\ Start(p, LedgerKey, rq) /\ UNCHANGED uivars
  \/ \E p \in Callers, r \in Responses : Respond(p, r) /\ UNCHANGED uivars
  \/ \E p \in Callers, storeOk \in BOOLEAN : Log(p, storeOk) /\ UNCHANGED uivars
  \/ \E p \in Callers, storeOk \in BOOLEAN : Query(p, storeOk) /\ UNCHANGED uivars
  \/ \E p \in Callers, storeOk \in BOOLEAN : Update(p, storeOk) /\ UNCHANGED uivars

SpecLedger == InitLedger /\ [][NextLedger]_vars

\* C18: Used_credits of an account never decreases: every write stores a
\* value greater than or equal to the value stored just before it.
C18_UsedNeverDecreases ==
  [][\A k \in DOMAIN accounts : Used(accounts', k) >= Used(accounts, k)]_vars

\* ================================================== main, the page script
\* One run of main (lines 230-383) is one action: Streamlit runs the script
\* from the top once per widget event or st.rerun(), with the widgets'
\* current values, and st.button is True only in the run its click started.
\* ui[p].page is what the run left on the page: "key" (stopped at line 243,
\* 253 or 256), "upload" (stopped at line 275), "button" (the button of line
\* 326), "result" (lines 351-368) or "running" (inside enhance_image).
MaxUICalls == 2        \* enhance_image invocations of a session's runs

Files == {PhotoPng, <<"b", ".", "p", "n", "g">>}
KeyInputs == Keys \cup {""}

DictSet(d, upd) ==
  [n \in DOMAIN d \cup DOMAIN upd |-> IF n \in DOMAIN upd THEN upd[n] ELSE d[n]]

\* Lines 249-256: the run goes on only when credits_ok is truthy.
StopsRunIfExhausted(credits_ok) == credits_ok = Some(FALSE)
StopsRun(credits_ok) == credits_ok # Some(TRUE)

\* Lines 314-315.
FileChanged(ss, name) ==
  "last_uploaded_file" \in DOMAIN ss /\ ss.last_uploaded_file # name

\* Line 325.
ShowsButtonAlways(image_processed) == TRUE
ShowsButton(image_processed) == ~image_processed

\* st.session_state after lines 307-322 (processing_time, a wall-clock
\* reading, is left out).
Prepared(ss, name) ==
  LET fresh == [image_processed |-> FALSE, output_data |-> None, result |-> None]
      s1 == IF "image_processed" \notin DOMAIN ss THEN DictSet(ss, fresh) ELSE ss
      s2 == IF FileChanged(s1, name) THEN DictSet(s1, fresh) ELSE s1
  IN  DictSet(s2, [last_uploaded_file |-> name])

Idle(p) == ui[p].page # "running" /\ ~ui[p].rerun

\* One run of main up to its end or to the call of enhance_image, with the
\* widgets holding key and file and the button clicked or not.
main(p, key, file, clicked, storeOk) ==
  LET ss == session_state[p]
      processed == DictGet(ss, "image_processed", FALSE)
      credits_ok == check_api_key_credits(key, storeOk).credits_ok
      shows(pg, f, gate, c) ==
        ui' = [ui EXCEPT ![p] = [api_key |-> key, uploaded_file |-> f,
                                  page |-> pg, rerun |-> FALSE,
                                  gate |-> gate, credits_ok |-> c]]
      gate == IF processed THEN "info" ELSE "gate"
      rest == <<accounts, logs, locals, checkRet, checkAnswered, global, percall>>
  IN
  IF key = "" THEN
    /\ shows("key", None, "none", None)
    /\ UNCHANGED <<session_state, file_name, rest>>
  ELSE IF ~processed /\ StopsRun(credits_ok) THEN
    /\ shows("key", None, gate, credits_ok)
    /\ UNCHANGED <<session_state, file_name, rest>>
  ELSE IF file = None THEN
    /\ shows("upload", None, gate, credits_ok)
    /\ UNCHANGED <<session_state, file_name, rest>>
  ELSE
    LET s == Prepared(ss, TheVal(file)) IN
      /\ session_state' = [session_state EXCEPT ![p] = s]
      /\ IF ShowsButton(s.image_processed) THEN
           IF clicked THEN
             /\ shows("running", file, gate, credits_ok)
             /\ file_name' = file_name
             /\ \E rq \in Requests : Start(p, key, rq)
           ELSE
             /\ shows("button", file, gate, credits_ok)
             /\ UNCHANGED <<file_name, rest>>
         ELSE
           /\ shows("result", file, gate, credits_ok)
           /\ \E rq \in Requests :
                file_name' =
                  Some([original_filename |-> TheVal(file),
                        scale |-> rq.scale, format_type |-> rq.format,
                        value |-> get_correct_filename(TheVal(file), rq.scale,
                                                       rq.format)])
           /\ UNCHANGED rest

\* The user edits the API key (line 240).
KeyInput(p, k, storeOk) ==
  /\ Idle(p)
  /\ k # ui[p].api_key
  /\ main(p, k, ui[p].uploaded_file, FALSE, storeOk)

\* The user picks, replaces or removes the file (line 268).
Upload(p, f, storeOk) ==
  /\ Idle(p)
  /\ ui[p].page \in {"upload", "button", "result"}
  /\ f # ui[p].uploaded_file
  /\ main(p, ui[p].api_key, f, FALSE, storeOk)

\* The user clicks the button of line 326.
Click(p, storeOk) ==
  /\ Idle(p)
  /\ ui[p].page = "button"
  /\ main(p, ui[p].api_key, ui[p].uploaded_file, TRUE, storeOk)

\* The run started by st.rerun() (line 348).
Rerun(p, storeOk) ==
  /\ ui[p].rerun
  /\ main(p, ui[p].api_key, ui[p].uploaded_file, FALSE, storeOk)

\* enhance_image returned into the run that called it (lines 335-350).
Finish(p) ==
  /\ ui[p].page = "running"
  /\ pc[p] = "done"
  /\ LET out == TheVal(ret[p]) IN
       IF out.ok
       THEN /\ session_state' = [session_state EXCEPT ![p] =
                 DictSet(@, [image_processed |-> TRUE, output_data |-> out.data,
                             result |-> out.details])]
            /\ ui' = [ui EXCEPT ![p].page = "button", ![p].rerun = TRUE]
       ELSE /\ session_state' = session_state
            /\ ui' = [ui EXCEPT ![p].page = "button"]
  /\ UNCHANGED <<file_name, accounts, logs, locals, checkRet, checkAnswered,
                 global, percall>>

\* One session at its page.
InitUI ==
  /\ accounts \in AccountTables(ProvisionedFieldSets(MaxCredits))
  /\ InitLocals

NextUI ==
  \/ \E k \in KeyInputs, storeOk \in BOOLEAN : KeyInput(TheSession, k, storeOk)
  \/ \E f \in {None} \cup {Some(n) : n \in Files}, storeOk \in BOOLEAN :
       Upload(TheSession, f, storeOk)
  \/ \E storeOk \in BOOLEAN : calls < MaxUICalls /\ Click(TheSession, storeOk)
  \/ \E storeOk \in BOOLEAN : Rerun(TheSession, storeOk)
  \/ Finish(TheSession)
  \/ \E r \in Responses : Respond(TheSession, r) /\ UNCHANGED uivars
  \/ \E storeOk \in BOOLEAN : Log(TheSession, storeOk) /\ UNCHANGED uivars
  \/ \E storeOk \in BOOLEAN : Query(TheSession, storeOk) /\ UNCHANGED uivars
  \/ \E storeOk \in BOOLEAN : Update(TheSession, storeOk) /\ UNCHANGED uivars

SpecUI == InitUI /\ [][NextUI]_vars

\* The step in which a run of session p calls enhance_image.
Invokes(p) == pc[p] # "post" /\ pc'[p] = "post"

C20_ProcessedOnce ==
  /\ [][LET ss == session_state[TheSession]
            processed == DictGet(ss, "image_processed", FALSE)
        IN  /\ Invokes(TheSession) =>
                 ~processed /\ ~session_state'[TheSession].image_processed
            /\ processed =>
                 IF session_state'[TheSession].image_processed
                 THEN accounts' = accounts /\ pc' = pc
                 ELSE /\ ui'[TheSession].uploaded_file # None
                      /\ TheVal(ui'[TheSession].uploaded_file) # ss.last_uploaded_file
                      /\ session_state'[TheSession].output_data = None
                      /\ session_state'[TheSession].result = None
                      /\ session_state'[TheSession].last_uploaded_file
                           = TheVal(ui'[TheSession].uploaded_file)]_vars
  /\ [](DictGet(session_state[TheSession], "image_processed", FALSE) =>
          /\ session_state[TheSession].output_data # None
          /\ session_state[TheSession].result # None)

\* An image was processed, then a file with another name was uploaded: the
\* button is back and the session state is cleared.
C20_Witness ==
  /\ calls = 1
  /\ pc[TheSession] = "done"
  /\ TheVal(ret[TheSession]).ok
  /\ ui[TheSession].page = "button"
  /\ ~ui[TheSession].rerun
  /\ "image_processed" \in DOMAIN session_state[TheSession]
  /\ ~session_state[TheSession].image_processed
  /\ session_state[TheSession].output_data = None
  /\ session_state[TheSession].last_uploaded_file # PhotoPng
  /\ file_name # None
  /\ TheVal(file_name).original_filename = PhotoPng

\* ====================================================== the per-key race
MaxRaceCalls == 2      \* enhance_image invocations of the two sessions

\* Two sessions at their pages with the same key, which has one credit left.
InitRace ==
  /\ accounts = [k \in {LedgerKey} |-> [Used_credits |-> 0, Allowed_credits |-> 1]]
  /\ InitLocals

NextRace ==
  \/ \E p \in Callers, storeOk \in BOOLEAN : KeyInput(p, LedgerKey, storeOk)
  \/ \E p \in Callers, storeOk \in BOOLEAN : Upload(p, Some(PhotoPng), storeOk)
  \/ \E p \in Callers, storeOk \in BOOLEAN :
       calls < MaxRaceCalls /\ Click(p, storeOk)
  \/ \E p \in Callers, storeOk \in BOOLEAN : Rerun(p, storeOk)
  \/ \E p \in Callers : Finish(p)
  \/ \E p \in Callers, r \in Responses : Respond(p, r) /\ UNCHANGED uivars
  \/ \E p \in Callers, storeOk \in BOOLEAN : Log(p, storeOk) /\ UNCHANGED uivars
  \/ \E p \in Callers, storeOk \in BOOLEAN : Query(p, storeOk) /\ UNCHANGED uivars
  \/ \E p \in Callers, storeOk \in BOOLEAN : Update(p, storeOk) /\ UNCHANGED uivars

SpecRace == InitRace /\ [][NextRace]_vars

\* C11: calls for one key are not serialized: while a session is inside
\* enhance_image for a key whose record still shows a credit, the click of
\* another session with the same key passes its check and enters
\* enhance_image as well; nothing makes it wait for the first increment.
C11_RaceNotSerialized ==
  \A p \in Callers : \A q \in Callers \ {p} :
    ( /\ Active(p)
      /\ api_key[p] = LedgerKey
      /\ ui[p].credits_ok = Some(TRUE)
      /\ Idle(q)
      /\ ui[q].page = "button"
      /\ ui[q].api_key = LedgerKey
      /\ Allowed(accounts, LedgerKey) - Used(accounts, LedgerKey) > 0 )
    => ENABLED (Click(q, TRUE) /\ pc'[q] = "post"
                  /\ ui'[q].credits_ok = Some(TRUE))

\* Both sessions got True from the check while one credit was left, both
\* calls returned ok, and the record shows more used than allowed.
C11_Witness ==
  /\ Allowed(accounts0, LedgerKey) - Used(accounts0, LedgerKey) = 1
  /\ \A p \in Callers :
       /\ pc[p] = "done"
       /\ ui[p].page = "running"
       /\ ui[p].gate = "gate"
       /\ ui[p].credits_ok = Some(TRUE)
       /\ api_key[p] = LedgerKey
       /\ TheVal(ret[p]).ok
  /\ Used(accounts, LedgerKey) = 2
  /\ Used(accounts, LedgerKey) > Allowed(accounts, LedgerKey)

====
